---- MODULE Spec2Model ----
(***************************************************************************)
(* Model of the eBay label printer's fulfillment loop: the seen-order      *)
(* store of app/orders.py (OrderManager), the pass of run.py               *)
(* (process_orders) and the collaborators it calls (LabelManager,          *)
(* PackingSlipGenerator, PrintManager).  Spec is the polling loop;         *)
(* StoreSpec is an OrderManager driven call by call, with restarts;        *)
(* PrintSpec is one print_documents call followed document by document.    *)
(*                                                                         *)
(* Python values are modelled as follows.  A dict is a record whose        *)
(* DOMAIN is the set of keys it holds, so that dict.get(k, default) is     *)
(* Get.  None is the record NoneVal.  The values whose Python type the     *)
(* code tests (isinstance, truthiness) carry a tag t.                      *)
(***************************************************************************)
EXTENDS Integers, Sequences, FiniteSets, TLC

\* Longest list of orders a GetOrders response holds.
MaxOrders == 2
\* Number of passes of the polling loop that are explored.
MaxPasses == 2

NoneVal == [none |-> TRUE]

\* dict.get(k, default)
Get(d, k, default) == IF k \in DOMAIN d THEN d[k] ELSE default

(***************************************************************************)
(* Orders the marketplace can list.  An order is the dict of one element   *)
(* of OrderArray.Order.                                                    *)
(***************************************************************************)
Txn == [Transaction |-> [TransactionID |-> "T1"]]

OrderA ==
    [OrderID |-> "A", order_id |-> "A", OrderStatus |-> "Completed",
     buyer_address |-> "addr", TransactionArray |-> Txn]

OrderB ==
    [OrderID |-> "B", order_id |-> "B", OrderStatus |-> "Completed",
     buyer_address |-> "addr", TransactionArray |-> Txn]

\* OrderID and order_id disagree.
OrderBA ==
    [OrderID |-> "B", order_id |-> "A", OrderStatus |-> "Completed",
     buyer_address |-> "addr", TransactionArray |-> Txn]

\* An order as the Trading API lists it: no order_id, no buyer_address key.
OrderRaw ==
    [OrderID |-> "A", OrderStatus |-> "Completed", TransactionArray |-> Txn]

OrderShipped ==
    [OrderID |-> "B", order_id |-> "B", OrderStatus |-> "Completed",
     ShippedTime |-> "2024-01-01T00:00:00.000Z",
     buyer_address |-> "addr", TransactionArray |-> Txn]

OrderActive ==
    [OrderID |-> "A", order_id |-> "A", OrderStatus |-> "Active",
     buyer_address |-> "addr", TransactionArray |-> Txn]

OrderNoTxn ==
    [OrderID |-> "B", order_id |-> "B", OrderStatus |-> "Completed",
     buyer_address |-> "addr"]

OrderPool ==
    {OrderA, OrderB, OrderBA, OrderRaw, OrderShipped, OrderActive, OrderNoTxn}

RECURSIVE SeqsUpTo(_, _)
SeqsUpTo(S, n) ==
    IF n = 0 THEN {<<>>}
    ELSE LET shorter == SeqsUpTo(S, n - 1)
         IN  shorter \cup
             {Append(s, x) : s \in {q \in shorter : Len(q) = n - 1}, x \in S}

(***************************************************************************)
(* What trading_api.execute("GetOrders", ...) can do: raise, or return a   *)
(* response with reply.Ack and dict().  OrderArray and Order are tagged:   *)
(* absent (no such key), None, dict, list.                                 *)
(***************************************************************************)
OrderValues ==
    {[t |-> "absent"], [t |-> "None"]}
        \cup {[t |-> "dict", v |-> o] : o \in OrderPool}
        \cup {[t |-> "list", v |-> s] : s \in SeqsUpTo(OrderPool, MaxOrders)}

OrderArrayValues ==
    {[t |-> "absent"], [t |-> "None"]}
        \cup {[t |-> "dict", Order |-> ov] : ov \in OrderValues}

GetOrdersResults ==
    {[kind |-> "EbayConnectionError"], [kind |-> "OSError"]}
        \cup {[kind |-> "response", Ack |-> "Success", OrderArray |-> oa] :
                oa \in OrderArrayValues}
        \cup {[kind |-> "response", Ack |-> ack,
               OrderArray |-> [t |-> "dict", Order |-> [t |-> "list", v |-> <<o>>]]] :
                ack \in {"Warning", "Failure"}, o \in {OrderA}}

VARIABLES
    seen,               \* OrderManager._seen_orders
    stateFile,          \* the content of config.STATE_FILE
    trading_api,        \* EbayClientMixin._trading_api is not None
    EBAY_ENVIRONMENT,   \* config.EBAY_ENVIRONMENT
    DRY_RUN,            \* config.DRY_RUN
    pc,                 \* position of main / process_orders
    passNo,             \* passes started so far
    seen0,              \* _seen_orders as it was when this pass started
    response,           \* what GetOrders did in this pass
    poll_raised,        \* poll_new_orders raised to process_orders in this pass
    new_orders,         \* process_orders: new_orders
    idx,                \* process_orders: position of the for loop in new_orders
    label_info,         \* process_orders: label_info
    packing_slip_path,  \* process_orders: packing_slip_path
    pdf_paths,          \* the argument of the last print_documents call of this pass
    success,            \* process_orders: success
    outcomes,           \* per candidate of this pass, the outcome logged for it
    calls,              \* the collaborator calls of this pass, in order
    processed,          \* orders marked processed in an earlier pass
    printFailed,        \* orders whose print failed in an earlier pass
    manager,            \* the OrderManager: "none", "alive", "failed" (__init__ raised)
    ops,                \* the calls made on the OrderManager by its caller, in order
    print_pc,           \* position of print_documents: "idle", "for", "returned"
    print_paths,        \* print_documents: pdf_paths
    print_i,            \* print_documents: position of the for loop in pdf_paths
    print_success,      \* print_documents: success
    print_result,       \* what print_documents returned (once print_pc is "returned")
    attempted,          \* the _print_single_pdf calls of print_documents, in order
    printer_ok,         \* main: test_printer_connection, "untested", "ok" or "failed"
    sent                \* the documents lp accepted since the process started, in order

passVars ==
    <<seen0, response, poll_raised, new_orders, idx, label_info, packing_slip_path,
      pdf_paths, success, outcomes, calls>>

configVars == <<trading_api, EBAY_ENVIRONMENT, DRY_RUN>>

\* The state of process_orders and main.
runVars == <<pc, passNo, passVars, processed, printFailed>>

\* The state of an OrderManager that is driven call by call.
storeVars == <<manager, ops>>

\* The state of one print_documents call that is followed document by document.
printVars ==
    <<print_pc, print_paths, print_i, print_success, print_result, attempted>>

\* The state of main around the loop: the startup and the printer's history.
mainVars == <<printer_ok, sent>>

vars ==
    <<seen, stateFile, trading_api, EBAY_ENVIRONMENT, DRY_RUN, pc, passNo,
      seen0, response, poll_raised, new_orders, idx, label_info, packing_slip_path,
      pdf_paths, success, outcomes, calls, processed, printFailed,
      manager, ops, print_pc, print_paths, print_i, print_success,
      print_result, attempted, printer_ok, sent>>


(***************************************************************************)
(* app/orders.py: the seen-order store.                                    *)
(***************************************************************************)

\* The state file: missing, holding {"seen_order_ids": ids}, or not valid JSON.
MissingFile == [kind |-> "missing", ids |-> {}]
JsonFile(ids) == [kind |-> "json", ids |-> ids]
CorruptFile == [kind |-> "corrupt", ids |-> {}]
\* A file open(.., "r") raises IOError on (a directory, no read permission).
UnreadableFile == [kind |-> "unreadable", ids |-> {}]
\* Valid JSON of another shape: a top-level list, null, an object without the
\* key seen_order_ids, an object holding null under seen_order_ids.
JsonListFile == [kind |-> "json_list", ids |-> {}]
JsonNullFile == [kind |-> "json_null", ids |-> {}]
JsonNoKeyFile == [kind |-> "json_nokey", ids |-> {}]
JsonIdsNullFile == [kind |-> "json_ids_null", ids |-> {}]

\* A loader without the exists test of line 56, whose handler catches only
\* json.JSONDecodeError.
LoadMissingRaises(file) ==
    CASE file.kind \in {"missing", "unreadable"} ->
            [raised |-> TRUE, value |-> {}, warned |-> FALSE]
      [] file.kind = "json" -> [raised |-> FALSE, value |-> file.ids, warned |-> FALSE]
      [] file.kind = "corrupt" -> [raised |-> FALSE, value |-> {}, warned |-> TRUE]
      [] file.kind = "json_nokey" -> [raised |-> FALSE, value |-> {}, warned |-> FALSE]
      [] OTHER -> [raised |-> TRUE, value |-> {}, warned |-> FALSE]

\* The result: did the call raise to __init__, the set it returned otherwise,
\* and whether it logged the warning of line 62.
_load_seen_orders(file) ==
    CASE file.kind = "missing" ->
            [raised |-> FALSE, value |-> {}, warned |-> FALSE]
      [] file.kind = "json" ->
            [raised |-> FALSE, value |-> file.ids, warned |-> FALSE]
      [] file.kind \in {"corrupt", "unreadable"} ->  \* JSONDecodeError, IOError
            [raised |-> FALSE, value |-> {}, warned |-> TRUE]
      [] file.kind = "json_nokey" ->                 \* data.get(.., [])
            [raised |-> FALSE, value |-> {}, warned |-> FALSE]
      [] file.kind \in {"json_list", "json_null"} -> \* data.get: AttributeError
            [raised |-> TRUE, value |-> {}, warned |-> FALSE]
      [] OTHER ->                                    \* set(None): TypeError
            [raised |-> TRUE, value |-> {}, warned |-> FALSE]

\* io: "ok", "open_fails" (open raises IOError, the file is untouched) or
\* "write_fails" (the file was truncated by open(.., "w"), then the write raised).
_save_seen_orders(s, file, io) ==
    CASE io = "ok" -> JsonFile(s)
      [] io = "open_fails" -> file
      [] OTHER -> CorruptFile

SaveOutcomes == {"ok", "open_fails", "write_fails"}

is_order_seen(order_id, s) == order_id \in s

\* A mark that takes the insertion back when the file could not be written.
MarkRollingBack(order_id, s, file, io) ==
    IF io = "ok"
    THEN [seen |-> s \cup {order_id},
          file |-> _save_seen_orders(s \cup {order_id}, file, io)]
    ELSE [seen |-> s, file |-> _save_seen_orders(s, file, io)]

\* A mark that takes an identifier out of the set when it is already there.
MarkToggling(order_id, s, file, io) ==
    LET t == IF order_id \in s THEN s \ {order_id} ELSE s \cup {order_id}
    IN  [seen |-> t, file |-> _save_seen_orders(t, file, io)]

\* A mark without the call of _save_seen_orders.
MarkWithoutSave(order_id, s, file, io) ==
    [seen |-> s \cup {order_id}, file |-> file]

\* A mark that keeps only the identifier it is given.
MarkReplacing(order_id, s, file, io) ==
    [seen |-> {order_id}, file |-> _save_seen_orders({order_id}, file, io)]

\* lines 128-132: the seen set and the state file the call leaves.  It does
\* not raise: _save_seen_orders catches the IOError.
mark_order_processed(order_id, s, file, io) ==
    [seen |-> s \cup {order_id},
     file |-> _save_seen_orders(s \cup {order_id}, file, io)]

extract_orders_from_response(resp) ==
    IF resp.Ack \in {"Success", "Warning"}
    THEN LET orders_array == resp.OrderArray
             orders ==
                 IF orders_array.t = "dict"
                 THEN IF orders_array.Order.t = "absent"
                      THEN [t |-> "list", v |-> <<>>]
                      ELSE orders_array.Order
                 ELSE [t |-> "list", v |-> <<>>]
         IN  IF orders.t = "dict" THEN [t |-> "list", v |-> <<orders.v>>] ELSE orders
    ELSE [t |-> "list", v |-> <<>>]

\* not order.get("ShippedTime")
NotShipped(order) == "ShippedTime" \notin DOMAIN order \/ order["ShippedTime"] = ""

\* A poll loop without the seen test of lines 107-109.
IsNewOrderUnfiltered(order, s) ==
    /\ Get(order, "OrderStatus", "") = "Completed"
    /\ NotShipped(order)

\* A poll loop without the ShippedTime test of line 116.
IsNewOrderIgnoringShipped(order, s) ==
    /\ ~is_order_seen(Get(order, "OrderID", ""), s)
    /\ Get(order, "OrderStatus", "") = "Completed"

\* The body of the for loop of poll_new_orders: does it append the order?
IsNewOrder(order, s) ==
    /\ ~is_order_seen(Get(order, "OrderID", ""), s)
    /\ Get(order, "OrderStatus", "") = "Completed"
    /\ NotShipped(order)

\* A poll loop that puts each new order in front of those found before it.
RECURSIVE PollLoopPrepending(_, _, _)
PollLoopPrepending(orders, s, acc) ==
    IF Len(orders) = 0 THEN acc
    ELSE PollLoopPrepending(Tail(orders), s,
                            IF IsNewOrder(Head(orders), s)
                            THEN <<Head(orders)>> \o acc ELSE acc)

RECURSIVE PollLoop(_, _, _)
PollLoop(orders, s, acc) ==
    IF Len(orders) = 0 THEN acc
    ELSE PollLoop(Tail(orders), s,
                  IF IsNewOrder(Head(orders), s) THEN Append(acc, Head(orders)) ELSE acc)

\* r is what trading_api.execute did.  The result: did the call raise to its
\* caller, and the list it returned otherwise.
poll_new_orders(api, r, s) ==
    IF ~api THEN [raised |-> FALSE, orders |-> <<>>]
    ELSE IF r.kind \in {"EbayConnectionError", "OSError"}
    THEN [raised |-> FALSE, orders |-> <<>>]
    ELSE LET orders == extract_orders_from_response(r)
         IN  IF orders.t = "list"
             THEN [raised |-> FALSE, orders |-> PollLoop(orders.v, s, <<>>)]
             ELSE [raised |-> TRUE, orders |-> <<>>]  \* for .. in None: TypeError

(***************************************************************************)
(* app/labels.py, app/packing.py, app/print.py: the collaborators.         *)
(***************************************************************************)

LabelPath(order_id) ==
    [dir |-> "data/labels", prefix |-> "test_shipping_label", id |-> order_id]

SlipPath(order_id) ==
    [dir |-> "data/packing_slips", prefix |-> "packing_slip", id |-> order_id]

\* fs is what create_test_label_pdf does: "ok", "OSError" or "Exception".
LabelFsOutcomes == {"ok", "OSError", "Exception"}

\* A label manager that makes the test label in every environment.
BuyLabelInAnyEnvironment(api, env, order_data, fs) ==
    LET order_id == Get(order_data, "OrderID", "unknown")
        transactions ==
            Get(Get(order_data, "TransactionArray", <<>>), "Transaction", <<>>)
        none == [raised |-> FALSE, value |-> NoneVal]
    IN  IF ~api THEN none
        ELSE IF DOMAIN transactions = {} THEN none
        ELSE CASE fs = "ok" ->
                    [raised |-> FALSE,
                     value |-> [order_id |-> order_id,
                                pdf_path |-> LabelPath(order_id),
                                status |-> "label_created"]]
               [] fs = "OSError" -> none
               [] OTHER -> [raised |-> TRUE, value |-> NoneVal]

buy_shipping_label(api, env, order_data, fs) ==
    LET order_id == Get(order_data, "OrderID", "unknown")
        transactions ==
            Get(Get(order_data, "TransactionArray", <<>>), "Transaction", <<>>)
        none == [raised |-> FALSE, value |-> NoneVal]
    IN  IF ~api THEN none
        ELSE IF DOMAIN transactions = {} THEN none
        ELSE IF env = "sandbox"
        THEN CASE fs = "ok" ->
                    [raised |-> FALSE,
                     value |-> [order_id |-> order_id,
                                pdf_path |-> LabelPath(order_id),
                                status |-> "label_created"]]
               [] fs = "OSError" -> none
               [] OTHER -> [raised |-> TRUE, value |-> NoneVal]
        ELSE none

validate_order_data(order_data) ==
    \A field \in {"order_id", "buyer_address"} : field \in DOMAIN order_data

\* fs is what building the PDF does: "ok" or "Exception".
SlipFsOutcomes == {"ok", "Exception"}

generate_packing_slip(order_data, fs) ==
    LET order_id == Get(order_data, "order_id", "unknown")
    IN  IF ~validate_order_data(order_data) THEN NoneVal
        ELSE IF fs = "ok" THEN SlipPath(order_id)
        ELSE NoneVal

\* printed[i]: does _print_single_pdf return True for the i-th document?
RECURSIVE PrintLoop(_, _, _, _)
PrintLoop(paths, printed, i, ok) ==
    IF i > Len(paths) THEN ok
    ELSE PrintLoop(paths, printed, i + 1, IF ~printed[i] THEN FALSE ELSE ok)

print_documents(dry, paths, printed) ==
    IF dry THEN TRUE ELSE PrintLoop(paths, printed, 1, TRUE)

\* What the file system and the lp command do for a document: the file
\* exists and lp exits with 0 ("ok"), the file does not exist ("missing"), lp
\* exits with another code ("lp_nonzero": CalledProcessError, check=True), lp
\* cannot be run ("lp_error": another exception of subprocess.run).
DocKinds == {"ok", "missing", "lp_nonzero", "lp_error"}

\* lines 49-87.  ok: the value returned; lp: was the lp command run?
_print_single_pdf(doc) ==
    IF doc = "missing" THEN [ok |-> FALSE, lp |-> FALSE]
    ELSE [ok |-> doc = "ok", lp |-> TRUE]

\* A print_documents without the DRY_RUN test of lines 36-40.
PrintEntryIgnoringDryRun(dry, n) ==
    IF n = 0 THEN [pc |-> "returned", result |-> TRUE]
    ELSE [pc |-> "for", result |-> FALSE]

\* lines 36-43: where print_documents goes when it is called with n
\* documents, and what it returns when it returns at once.
PrintEntry(dry, n) ==
    IF dry THEN [pc |-> "returned", result |-> TRUE]
    ELSE IF n = 0 THEN [pc |-> "returned", result |-> TRUE]
    ELSE [pc |-> "for", result |-> FALSE]

\* A for loop that is left at the first document that fails.
PrintNextStopAtFailure(i, n, ok) ==
    IF ~ok \/ i + 1 > n THEN "returned" ELSE "for"

\* lines 43-47: where the for loop goes after the i-th of n documents.
PrintNext(i, n, ok) == IF i + 1 > n THEN "returned" ELSE "for"


(***************************************************************************)
(* run.py: main's polling loop and one pass, process_orders.               *)
(*                                                                         *)
(* pc: "main_loop" (line 63, before a pass), "poll" (line 82), "order"     *)
(* (line 90, the head of the for loop), "label" (line 101), "slip" (line   *)
(* 107), "print" (line 113), "mark" (line 117), "returned" (process_orders *)
(* has returned to main, lines 66-67).                                     *)
(***************************************************************************)

Outcomes ==
    {"processed", "skipped-already-seen", "failed-label", "failed-slip",
     "failed-print", "error"}

NoResponse == [kind |-> "none"]

\* No print_documents call is being followed document by document.
PrintIdle ==
    /\ print_pc = "idle"
    /\ print_paths = <<>>
    /\ print_i = 0
    /\ print_success = TRUE
    /\ print_result = FALSE
    /\ attempted = <<>>

\* main is not followed: the printer test is not recorded, nor what lp accepted.
MainIdle ==
    /\ printer_ok = "untested"
    /\ sent = <<>>

Init ==
    /\ stateFile \in {MissingFile, JsonFile({"A"})}
    /\ seen = _load_seen_orders(stateFile).value
    /\ trading_api \in BOOLEAN
    /\ EBAY_ENVIRONMENT \in {"sandbox", "production"}
    /\ DRY_RUN \in BOOLEAN
    /\ pc = "main_loop"
    /\ passNo = 0
    /\ seen0 = {}
    /\ response = NoResponse
    /\ poll_raised = FALSE
    /\ new_orders = <<>>
    /\ idx = 0
    /\ label_info = NoneVal
    /\ packing_slip_path = NoneVal
    /\ pdf_paths = <<>>
    /\ success = FALSE
    /\ outcomes = <<>>
    /\ calls = <<>>
    /\ processed = {}
    /\ printFailed = {}
    /\ manager = "alive"
    /\ ops = <<>>
    /\ PrintIdle
    /\ MainIdle

\* A pass started by a timer, whatever the previous pass is doing.
StartPassOnTimer ==
    /\ passNo < MaxPasses
    /\ pc' = "poll"
    /\ passNo' = passNo + 1
    /\ seen0' = seen
    /\ UNCHANGED <<seen, stateFile, configVars, response, poll_raised,
                   new_orders, idx, label_info, packing_slip_path, pdf_paths,
                   success, outcomes, calls, processed, printFailed,
                   storeVars, printVars, mainVars>>

\* main, line 64: the loop calls process_orders.
StartPass ==
    /\ pc = "main_loop"
    /\ passNo < MaxPasses
    /\ pc' = "poll"
    /\ passNo' = passNo + 1
    /\ seen0' = seen
    /\ UNCHANGED <<seen, stateFile, configVars, response, poll_raised,
                   new_orders, idx, label_info, packing_slip_path, pdf_paths,
                   success, outcomes, calls, processed, printFailed,
                   storeVars, printVars, mainVars>>

\* A pass without the handler of line 126: an exception of poll_new_orders
\* leaves process_orders and reaches main.
AfterPollPropagating(res) ==
    IF res.raised THEN "raised"
    ELSE IF Len(res.orders) = 0 THEN "returned"
    ELSE "order"

\* process_orders, lines 80-88 and the handler of line 126: where the pass
\* goes after poll_new_orders.
AfterPoll(res) ==
    IF res.raised THEN "returned"                \* except Exception, line 126
    ELSE IF Len(res.orders) = 0 THEN "returned"  \* if not new_orders: return
    ELSE "order"

\* A poll that marks the orders it returns as seen.
PollMarking ==
    /\ pc = "poll"
    /\ \E r \in (IF trading_api THEN GetOrdersResults ELSE {NoResponse}) :
          LET res == poll_new_orders(trading_api, r, seen)
          IN  /\ response' = r
              /\ poll_raised' = res.raised
              /\ new_orders' = res.orders
              /\ pc' = AfterPoll(res)
              /\ idx' = IF AfterPoll(res) = "order" THEN 1 ELSE 0
              /\ seen' = seen \cup {Get(res.orders[i], "OrderID", "") :
                                       i \in 1..Len(res.orders)}
              /\ stateFile' = JsonFile(seen')
    /\ UNCHANGED <<configVars, passNo, seen0, label_info,
                   packing_slip_path, pdf_paths, success, outcomes, calls,
                   processed, printFailed, storeVars, printVars, mainVars>>

Poll ==
    /\ pc = "poll"
    /\ \E r \in (IF trading_api THEN GetOrdersResults ELSE {NoResponse}) :
          LET res == poll_new_orders(trading_api, r, seen)
          IN  /\ response' = r
              /\ poll_raised' = res.raised
              /\ new_orders' = res.orders
              /\ pc' = AfterPoll(res)
              /\ idx' = IF AfterPoll(res) = "order" THEN 1 ELSE 0
    /\ UNCHANGED <<seen, stateFile, configVars, passNo, seen0, label_info,
                   packing_slip_path, pdf_paths, success, outcomes, calls,
                   processed, printFailed,
                   storeVars, printVars, mainVars>>

\* continue, or the end of the loop body: the for loop takes the next order.
NextPosition(i, n) ==
    IF i + 1 > n THEN [pc |-> "returned", idx |-> i + 1]
    ELSE [pc |-> "order", idx |-> i + 1]

\* A loop body without the handler of lines 122-124: the exception reaches
\* the handler of line 126 and ends the pass.
OrderExceptionEndsPass(i, n) == [pc |-> "returned", idx |-> i + 1]

\* lines 122-124: an exception of the loop body is caught per order.
OrderExceptionHandler(i, n) == NextPosition(i, n)

\* The order of new_orders the loop body runs on.
CurrentOrder == new_orders[idx]

\* line 91
OrderIdOf(order) == Get(order, "order_id", "unknown")

Finish(outcome, position) ==
    /\ outcomes' = Append(outcomes, outcome)
    /\ pc' = position.pc
    /\ idx' = position.idx

\* A collaborator call of the loop body: on which order, with which paths
\* (print_documents), and whether it succeeded.
Called(step, ok, paths) ==
    Append(calls, [i |-> idx, step |-> step, order |-> CurrentOrder,
                   ok |-> ok, paths |-> paths])

\* A loop body without the seen test of lines 95-98.
SkipOrderNever(order, s) == FALSE

\* lines 95-98
SkipOrder(order, s) == is_order_seen(OrderIdOf(order), s)

\* lines 90-98
NextOrder ==
    /\ pc = "order"
    /\ IF SkipOrder(CurrentOrder, seen)
       THEN Finish("skipped-already-seen", NextPosition(idx, Len(new_orders)))
       ELSE /\ pc' = "label"
            /\ UNCHANGED <<idx, outcomes>>
    /\ UNCHANGED <<seen, stateFile, configVars, passNo, seen0, response,
                   poll_raised, new_orders, label_info, packing_slip_path,
                   pdf_paths, success, calls, processed, printFailed,
                   storeVars, printVars, mainVars>>

\* A loop body that goes on to the packing slip without a label.
AfterLabelAlwaysSlip(value) == "slip"

\* lines 102-104: what follows buy_shipping_label.
AfterLabel(value) == IF value = NoneVal THEN "failed-label" ELSE "slip"

\* lines 100-104
BuyLabel ==
    /\ pc = "label"
    /\ \E fs \in LabelFsOutcomes :
          LET r == buy_shipping_label(trading_api, EBAY_ENVIRONMENT, CurrentOrder, fs)
          IN  IF r.raised
              THEN /\ label_info' = label_info
                   /\ calls' = Called("label", FALSE, <<>>)
                   /\ Finish("error", OrderExceptionHandler(idx, Len(new_orders)))
              ELSE /\ label_info' = r.value
                   /\ calls' = Called("label", r.value # NoneVal, <<>>)
                   /\ IF AfterLabel(r.value) = "slip"
                      THEN /\ pc' = "slip"
                           /\ UNCHANGED <<idx, outcomes>>
                      ELSE Finish("failed-label", NextPosition(idx, Len(new_orders)))
    /\ UNCHANGED <<seen, stateFile, configVars, passNo, seen0, response,
                   poll_raised, new_orders, packing_slip_path, pdf_paths,
                   success, processed, printFailed,
                   storeVars, printVars, mainVars>>

\* lines 108-110: what follows generate_packing_slip.
AfterSlip(path) == IF path = NoneVal THEN "failed-slip" ELSE "print"

\* lines 106-110
GenerateSlip ==
    /\ pc = "slip"
    /\ \E fs \in SlipFsOutcomes :
          LET path == generate_packing_slip(CurrentOrder, fs)
          IN  /\ packing_slip_path' = path
              /\ calls' = Called("slip", path # NoneVal, <<>>)
              /\ IF AfterSlip(path) = "print"
                 THEN /\ pc' = "print"
                      /\ UNCHANGED <<idx, outcomes>>
                 ELSE Finish("failed-slip", NextPosition(idx, Len(new_orders)))
    /\ UNCHANGED <<seen, stateFile, configVars, passNo, seen0, response,
                   poll_raised, new_orders, label_info, pdf_paths, success,
                   processed, printFailed,
                   storeVars, printVars, mainVars>>

\* A print call with the two documents the other way round.
PdfPathsSlipFirst(label, slip) == <<slip, label.pdf_path>>

\* line 113
PdfPaths(label, slip) == <<label.pdf_path, slip>>

\* A pass that never marks the order, whatever print_documents reported.
AfterPrintNeverMark(ok) == "failed-print"

\* A pass that marks the order whatever print_documents reported.
AfterPrintAlwaysMark(ok) == "mark"

\* lines 116-120: what follows print_documents.
AfterPrint(ok) == IF ok THEN "mark" ELSE "failed-print"

\* lines 112-120
PrintDocuments ==
    /\ pc = "print"
    /\ \E printed \in [1..2 -> BOOLEAN] :
          LET paths == PdfPaths(label_info, packing_slip_path)
              ok == print_documents(DRY_RUN, paths, printed)
          IN  /\ pdf_paths' = paths
              /\ success' = ok
              /\ calls' = Called("print", ok, paths)
              /\ IF AfterPrint(ok) = "mark"
                 THEN /\ pc' = "mark"
                      /\ UNCHANGED <<idx, outcomes>>
                 ELSE Finish("failed-print", NextPosition(idx, Len(new_orders)))
    /\ UNCHANGED <<seen, stateFile, configVars, passNo, seen0, response,
                   poll_raised, new_orders, label_info, packing_slip_path,
                   processed, printFailed,
                   storeVars, printVars, mainVars>>

\* lines 117-118, with mark_order_processed and _save_seen_orders
MarkProcessed ==
    /\ pc = "mark"
    /\ \E io \in SaveOutcomes :
          LET r == mark_order_processed(OrderIdOf(CurrentOrder), seen, stateFile, io)
          IN  /\ seen' = r.seen
              /\ stateFile' = r.file
    /\ calls' = Called("mark", TRUE, <<>>)
    /\ Finish("processed", NextPosition(idx, Len(new_orders)))
    /\ UNCHANGED <<configVars, passNo, seen0, response, poll_raised,
                   new_orders, label_info, packing_slip_path, pdf_paths,
                   success, processed, printFailed,
                   storeVars, printVars, mainVars>>

\* The candidates of the pass that ended with the given outcome.
OrdersWith(outcome) ==
    {new_orders[i] : i \in {j \in 1..Len(outcomes) : outcomes[j] = outcome}}

\* main, lines 66-67 and 63: sleep, then the loop comes round.
Sleep ==
    /\ pc = "returned"
    /\ pc' = "main_loop"
    /\ seen0' = {}
    /\ response' = NoResponse
    /\ poll_raised' = FALSE
    /\ new_orders' = <<>>
    /\ idx' = 0
    /\ label_info' = NoneVal
    /\ packing_slip_path' = NoneVal
    /\ pdf_paths' = <<>>
    /\ success' = FALSE
    /\ outcomes' = <<>>
    /\ calls' = <<>>
    /\ processed' = processed \cup OrdersWith("processed")
    /\ printFailed' = printFailed \cup OrdersWith("failed-print")
    /\ UNCHANGED <<seen, stateFile, configVars, passNo, storeVars, printVars, mainVars>>

Next ==
    \/ StartPass
    \/ Poll
    \/ NextOrder
    \/ BuyLabel
    \/ GenerateSlip
    \/ PrintDocuments
    \/ MarkProcessed
    \/ Sleep

Spec == Init /\ [][Next]_vars


(***************************************************************************)
(* app/orders.py: an OrderManager driven call by call, as its callers and  *)
(* its tests drive it: constructed on the state file, marked, asked, and   *)
(* constructed again on the same file (the process is started again).      *)
(***************************************************************************)

\* Number of calls on the store that are explored.
MaxOps == 4

StoreIds == {"A", "B"}

\* What the state file can hold when the process starts.
StateFiles ==
    {MissingFile, CorruptFile, UnreadableFile, JsonListFile, JsonNullFile,
     JsonNoKeyFile, JsonIdsNullFile}
        \cup {JsonFile(s) : s \in SUBSET StoreIds}

\* process_orders is not running.
RunIdle ==
    /\ pc = "main_loop"
    /\ passNo = 0
    /\ seen0 = {}
    /\ response = NoResponse
    /\ poll_raised = FALSE
    /\ new_orders = <<>>
    /\ idx = 0
    /\ label_info = NoneVal
    /\ packing_slip_path = NoneVal
    /\ pdf_paths = <<>>
    /\ success = FALSE
    /\ outcomes = <<>>
    /\ calls = <<>>
    /\ processed = {}
    /\ printFailed = {}

StoreInit ==
    /\ stateFile \in StateFiles
    /\ seen = {}
    /\ manager = "none"
    /\ ops = <<>>
    /\ trading_api = FALSE
    /\ EBAY_ENVIRONMENT = "sandbox"
    /\ DRY_RUN = TRUE
    /\ RunIdle
    /\ PrintIdle
    /\ MainIdle

\* One call on the store: what was called, what it did, and the seen set,
\* the state file and the manager it left.
StoreOp(op, id, io, raised, warned, answer) ==
    [op |-> op, id |-> id, io |-> io, raised |-> raised, warned |-> warned,
     answer |-> answer, before |-> stateFile,
     seen |-> seen', file |-> stateFile', manager |-> manager']

\* OrderManager.__init__, lines 26-29
StoreConstruct ==
    /\ Len(ops) < MaxOps
    /\ LET r == _load_seen_orders(stateFile)
       IN  /\ manager' = IF r.raised THEN "failed" ELSE "alive"
           /\ seen' = r.value
           /\ stateFile' = stateFile
           /\ ops' = Append(ops, StoreOp("construct", "", "ok", r.raised, r.warned, FALSE))
    /\ UNCHANGED <<configVars, runVars, printVars, mainVars>>

\* mark_order_processed(id), lines 128-132
StoreMark ==
    /\ manager = "alive"
    /\ Len(ops) < MaxOps
    /\ \E id \in StoreIds, io \in SaveOutcomes :
          LET r == mark_order_processed(id, seen, stateFile, io)
          IN  /\ seen' = r.seen
              /\ stateFile' = r.file
              /\ manager' = manager
              /\ ops' = Append(ops, StoreOp("mark", id, io, FALSE, FALSE, FALSE))
    /\ UNCHANGED <<configVars, runVars, printVars, mainVars>>

\* is_order_seen(id), lines 134-136
StoreIsSeen ==
    /\ manager = "alive"
    /\ Len(ops) < MaxOps
    /\ \E id \in StoreIds :
          /\ seen' = seen
          /\ stateFile' = stateFile
          /\ manager' = manager
          /\ ops' = Append(ops, StoreOp("is_seen", id, "ok", FALSE, FALSE,
                                        is_order_seen(id, seen)))
    /\ UNCHANGED <<configVars, runVars, printVars, mainVars>>

StoreNext ==
    \/ StoreConstruct
    \/ StoreMark
    \/ StoreIsSeen

StoreSpec == StoreInit /\ [][StoreNext]_vars


(***************************************************************************)
(* app/print.py: one print_documents call, followed document by document.  *)
(***************************************************************************)

\* Longest list of documents print_documents is called with.
MaxDocs == 3

PrintInit ==
    /\ DRY_RUN \in BOOLEAN
    /\ trading_api = FALSE
    /\ EBAY_ENVIRONMENT = "sandbox"
    /\ stateFile = MissingFile
    /\ seen = {}
    /\ manager = "none"
    /\ ops = <<>>
    /\ RunIdle
    /\ PrintIdle
    /\ MainIdle

\* lines 26-43: print_documents is called.
PrintCall ==
    /\ print_pc = "idle"
    /\ \E paths \in SeqsUpTo(DocKinds, MaxDocs) :
          LET entry == PrintEntry(DRY_RUN, Len(paths))
          IN  /\ print_paths' = paths
              /\ print_pc' = entry.pc
              /\ print_result' = entry.result
              /\ print_i' = IF entry.pc = "for" THEN 1 ELSE 0
    /\ print_success' = TRUE
    /\ attempted' = <<>>
    /\ UNCHANGED <<seen, stateFile, configVars, runVars, storeVars, mainVars>>

\* lines 43-47: the body of the for loop for one document, and the return
\* when it was the last one.
PrintOne ==
    /\ print_pc = "for"
    /\ LET r == _print_single_pdf(print_paths[print_i])
           next == PrintNext(print_i, Len(print_paths), r.ok)
       IN  /\ attempted' = Append(attempted, [i |-> print_i, ok |-> r.ok, lp |-> r.lp])
           /\ print_success' = IF ~r.ok THEN FALSE ELSE print_success
           /\ print_pc' = next
           /\ print_i' = print_i + 1
           /\ print_result' = IF next = "returned" THEN print_success' ELSE FALSE
    /\ UNCHANGED <<print_paths, seen, stateFile, configVars, runVars, storeVars, mainVars>>

PrintNextStep ==
    \/ PrintCall
    \/ PrintOne

PrintSpec == PrintInit /\ [][PrintNextStep]_vars


(***************************************************************************)
(* run.py: main from its first line.  The startup (configuration,          *)
(* components, printer test), then the loop, where print_documents is      *)
(* followed document by document and the operator can interrupt.           *)
(*                                                                         *)
(* pc has, beside the positions of the loop: "start" (line 41),            *)
(* "construct" (lines 49-52), "test_printer" (line 55), and the ends of    *)
(* the process: "exit_config" (sys.exit(1), line 46), "crashed" (an        *)
(* exception nothing catches leaves main), "interrupted" (line 70).        *)
(* The GetOrders responses are the ones that list no order or one order    *)
(* that is not wrapped in a list.                                          *)
(***************************************************************************)

\* A startup that keeps the configured DRY_RUN whatever the printer test says.
StartupKeepsConfig(configured, ok) == configured

\* lines 55-57: config.DRY_RUN after the printer test.
StartupDryRun(configured, ok) == IF ~ok THEN TRUE ELSE configured

LoopPositions ==
    {"main_loop", "poll", "order", "label", "slip", "print", "mark", "returned"}

MainInit ==
    /\ pc = "start"
    /\ stateFile \in {MissingFile, JsonFile({"A"}), JsonListFile}
    /\ seen = {}
    /\ manager = "none"
    /\ ops = <<>>
    /\ trading_api = FALSE
    /\ EBAY_ENVIRONMENT \in {"sandbox", "production"}
    /\ DRY_RUN \in BOOLEAN
    /\ passNo = 0
    /\ seen0 = {}
    /\ response = NoResponse
    /\ poll_raised = FALSE
    /\ new_orders = <<>>
    /\ idx = 0
    /\ label_info = NoneVal
    /\ packing_slip_path = NoneVal
    /\ pdf_paths = <<>>
    /\ success = FALSE
    /\ outcomes = <<>>
    /\ calls = <<>>
    /\ processed = {}
    /\ printFailed = {}
    /\ PrintIdle
    /\ MainIdle

\* lines 41-46: the configuration is loaded and validated.
MainValidate ==
    /\ pc = "start"
    /\ \E valid \in BOOLEAN :
          pc' = IF valid THEN "construct" ELSE "exit_config"
    /\ UNCHANGED <<seen, stateFile, configVars, passNo, passVars, processed,
                   printFailed, storeVars, printVars, mainVars>>

\* lines 49-52: the components are constructed; OrderManager.__init__ loads
\* the state file and connects to the marketplace.
MainConstruct ==
    /\ pc = "construct"
    /\ LET r == _load_seen_orders(stateFile)
       IN  IF r.raised
           THEN /\ pc' = "crashed"
                /\ manager' = "failed"
                /\ UNCHANGED <<seen, trading_api>>
           ELSE /\ pc' = "test_printer"
                /\ manager' = "alive"
                /\ seen' = r.value
                /\ trading_api' \in BOOLEAN
    /\ UNCHANGED <<stateFile, EBAY_ENVIRONMENT, DRY_RUN, passNo, passVars,
                   processed, printFailed, ops, printVars, mainVars>>

\* lines 55-60
MainTestPrinter ==
    /\ pc = "test_printer"
    /\ \E ok \in BOOLEAN :
          /\ printer_ok' = IF ok THEN "ok" ELSE "failed"
          /\ DRY_RUN' = StartupDryRun(DRY_RUN, ok)
    /\ pc' = "main_loop"
    /\ UNCHANGED <<seen, stateFile, trading_api, EBAY_ENVIRONMENT, passNo,
                   passVars, processed, printFailed, storeVars, printVars, sent>>

\* poll_new_orders, on a response that lists at most one order.
MainPoll ==
    /\ Poll
    /\ response'.kind = "response" =>
          (response'.OrderArray.t = "dict" => response'.OrderArray.Order.t # "list")

\* line 113: print_documents is called with the label and the slip.
MainPrintCall ==
    /\ pc = "print"
    /\ print_pc = "idle"
    /\ \E docs \in [1..2 -> DocKinds] :
          LET paths == PdfPaths(label_info, packing_slip_path)
              entry == PrintEntry(DRY_RUN, Len(paths))
          IN  /\ pdf_paths' = paths
              /\ print_paths' = docs
              /\ print_pc' = entry.pc
              /\ print_result' = entry.result
              /\ print_i' = IF entry.pc = "for" THEN 1 ELSE 0
    /\ print_success' = TRUE
    /\ attempted' = <<>>
    /\ UNCHANGED <<seen, stateFile, configVars, pc, passNo, seen0, response,
                   poll_raised, new_orders, idx, label_info, packing_slip_path,
                   success, outcomes, calls, processed, printFailed,
                   storeVars, mainVars>>

\* The documents lp accepted in the print_documents call that returns.
Accepted ==
    LET oks == SelectSeq(attempted, LAMBDA a : a.ok)
    IN  [k \in 1..Len(oks) |->
            [pass |-> passNo, idx |-> idx, order |-> CurrentOrder,
             i |-> oks[k].i, path |-> pdf_paths[oks[k].i],
             call_ok |-> print_result]]

\* lines 113-120: print_documents returns to process_orders.
MainPrintReturn ==
    /\ pc = "print"
    /\ print_pc = "returned"
    /\ success' = print_result
    /\ calls' = Called("print", print_result, pdf_paths)
    /\ sent' = sent \o Accepted
    /\ IF AfterPrint(print_result) = "mark"
       THEN /\ pc' = "mark"
            /\ UNCHANGED <<idx, outcomes>>
       ELSE Finish("failed-print", NextPosition(idx, Len(new_orders)))
    /\ print_pc' = "idle"
    /\ print_paths' = <<>>
    /\ print_i' = 0
    /\ print_success' = TRUE
    /\ print_result' = FALSE
    /\ attempted' = <<>>
    /\ UNCHANGED <<seen, stateFile, configVars, passNo, seen0, response,
                   poll_raised, new_orders, label_info, packing_slip_path,
                   pdf_paths, processed, printFailed, storeVars, printer_ok>>

\* lines 69-70: the operator interrupts the loop.
Interrupt ==
    /\ pc \in LoopPositions
    /\ pc' = "interrupted"
    /\ UNCHANGED <<seen, stateFile, configVars, passNo, passVars, processed,
                   printFailed, storeVars, printVars, mainVars>>

MainNext ==
    \/ MainValidate
    \/ MainConstruct
    \/ MainTestPrinter
    \/ StartPass
    \/ MainPoll
    \/ NextOrder
    \/ BuyLabel
    \/ GenerateSlip
    \/ MainPrintCall
    \/ PrintOne
    \/ MainPrintReturn
    \/ MarkProcessed
    \/ Sleep
    \/ Interrupt

MainSpec == MainInit /\ [][MainNext]_vars


(***************************************************************************)
(* Properties.                                                             *)
(***************************************************************************)

\* line 105 of app/orders.py: the identifier poll_new_orders filters on.
PollIdOf(order) == Get(order, "OrderID", "")

\* The orders poll_new_orders saw listed in the response of this pass.
Offered ==
    IF response.kind = "response"
    THEN LET orders == extract_orders_from_response(response)
         IN  IF orders.t = "list" THEN orders.v ELSE <<>>
    ELSE <<>>

\* The collaborator calls of this pass made for the i-th candidate, in order.
CallsOf(i) ==
    LET Mine(c) == c.i = i
    IN  SelectSeq(calls, Mine)

HasOutcome(outcome) == \E i \in 1..Len(outcomes) : outcomes[i] = outcome

\* For the candidate the loop body is on: label, slip and print were called,
\* in this order, and each succeeded.
PipelineSucceeded ==
    LET mine == CallsOf(idx)
    IN  /\ Len(mine) = 3
        /\ mine[1].step = "label" /\ mine[1].ok
        /\ mine[2].step = "slip" /\ mine[2].ok
        /\ mine[3].step = "print" /\ mine[3].ok

\* C1: the step that ends the handling of a candidate adds the candidate's
\* identifier to the seen set (and logs "processed") if and only if
\* buy_shipping_label returned a label, generate_packing_slip returned a path
\* and print_documents reported success for it; every other outcome, and
\* every other step of the pass, leaves the seen set as it was.
C1_MarkIffPipelineSucceeded ==
    [][IF Len(outcomes') = Len(outcomes) + 1
       THEN LET id == OrderIdOf(CurrentOrder)
            IN  IF PipelineSucceeded
                THEN /\ id \notin seen
                     /\ seen' = seen \cup {id}
                     /\ outcomes'[Len(outcomes')] = "processed"
                ELSE /\ seen' = seen
                     /\ outcomes'[Len(outcomes')] # "processed"
       ELSE seen' = seen]_vars

C1_Witness ==
    /\ pc = "returned"
    /\ HasOutcome("processed")
    /\ HasOutcome("failed-print")

\* C2: an order the marketplace lists in a pass whose identifier (its OrderID
\* or its order_id) was in the seen set when the pass started gets no
\* buy_shipping_label call in that pass.
C2_SeenOrdersGetNoLabel ==
    LET offered == Offered
    IN  \A p \in 1..Len(offered) :
            (PollIdOf(offered[p]) \in seen0 \/ OrderIdOf(offered[p]) \in seen0)
                => \A k \in 1..Len(calls) :
                      ~(calls[k].step = "label" /\ calls[k].order = offered[p])

C2_Witness ==
    /\ pc = "returned"
    /\ \E p \in 1..Len(Offered) : PollIdOf(Offered[p]) \in seen0
    /\ \E k \in 1..Len(calls) : calls[k].step = "label"

\* C3: an order that an earlier pass marked processed gets no collaborator
\* call (no buy_shipping_label, no print_documents) in a later pass, and when
\* poll_new_orders returns it as a candidate its outcome is
\* skipped-already-seen.
C3_ProcessedOrdersAreSkipped ==
    /\ \A k \in 1..Len(calls) : calls[k].order \notin processed
    /\ \A i \in 1..Len(outcomes) :
          new_orders[i] \in processed => outcomes[i] = "skipped-already-seen"

C3_Witness ==
    /\ pc = "returned"
    /\ passNo >= 2
    /\ \E p \in 1..Len(Offered) : Offered[p] \in processed

\* C4: a pass that got candidates gives every candidate exactly one outcome,
\* and every candidate that is not skipped as seen is run through the
\* pipeline (buy_shipping_label is called for it), whatever happened to the
\* candidates before it.
C4_EveryCandidateGetsOneOutcome ==
    /\ pc \in {"order", "label", "slip", "print", "mark"} =>
          /\ idx \in 1..Len(new_orders)
          /\ Len(outcomes) = idx - 1
    /\ pc = "returned" =>
          /\ Len(outcomes) = Len(new_orders)
          /\ \A i \in 1..Len(outcomes) :
                /\ outcomes[i] \in Outcomes
                /\ outcomes[i] # "skipped-already-seen" =>
                      \E k \in 1..Len(calls) :
                          calls[k].i = i /\ calls[k].step = "label"

C4_Witness ==
    /\ pc = "returned"
    /\ Len(outcomes) = 2
    /\ outcomes[1] = "error"
    /\ outcomes[2] = "processed"

Pipeline == <<"label", "slip", "print", "mark">>

\* C5: the calls made for one candidate are a prefix of label, slip, print,
\* mark, and a step is called only if the step before it succeeded.
C5_StepsInOrderAfterSuccess ==
    \A i \in 1..Len(new_orders) :
        LET mine == CallsOf(i)
        IN  /\ Len(mine) <= Len(Pipeline)
            /\ \A n \in 1..Len(mine) :
                  /\ mine[n].step = Pipeline[n]
                  /\ n > 1 => mine[n - 1].ok

C5_Witness ==
    /\ pc = "returned"
    /\ \E i \in 1..Len(new_orders) : Len(CallsOf(i)) = 4
    /\ \E i \in 1..Len(new_orders) :
          /\ Len(CallsOf(i)) = 2
          /\ ~CallsOf(i)[2].ok


ProcessedInPass(order_id, except) ==
    \E j \in 1..Len(outcomes) :
        /\ j # except
        /\ outcomes[j] = "processed"
        /\ OrderIdOf(new_orders[j]) = order_id

C7_PrintGetsLabelThenSlip ==
    \A k \in 1..Len(calls) :
        calls[k].step = "print" =>
            /\ Len(calls[k].paths) = 2
            /\ calls[k].paths[1] = LabelPath(Get(calls[k].order, "OrderID", "unknown"))
            /\ calls[k].paths[2] = SlipPath(OrderIdOf(calls[k].order))
            /\ k = Len(calls) => pdf_paths = calls[k].paths

C7_Witness ==
    /\ Len(new_orders) = 2
    /\ new_orders[1] # new_orders[2]
    /\ \E k \in 1..Len(calls) : calls[k].step = "print" /\ calls[k].i = 1
    /\ \E k \in 1..Len(calls) : calls[k].step = "print" /\ calls[k].i = 2

\* sub is full with some of its elements left out.
RECURSIVE IsOrderedSubseq(_, _)
IsOrderedSubseq(sub, full) ==
    IF Len(sub) = 0 THEN TRUE
    ELSE IF Len(full) = 0 THEN FALSE
    ELSE IF Head(sub) = Head(full) THEN IsOrderedSubseq(Tail(sub), Tail(full))
    ELSE IsOrderedSubseq(sub, Tail(full))

\* C8: the candidates of a pass are listed orders in the order the response
\* listed them, and the calls of the pass go through the candidates one at a
\* time in that order: a call for a candidate is made only when every
\* candidate before it has its outcome.
C8_SourceOrderOneAtATime ==
    /\ IsOrderedSubseq(new_orders, Offered)
    /\ \A k \in 1..Len(calls) :
          /\ calls[k].i \in 1..Len(new_orders)
          /\ calls[k].order = new_orders[calls[k].i]
          /\ calls[k].i <= Len(outcomes) + 1
          /\ k > 1 => calls[k - 1].i <= calls[k].i

C8_Witness ==
    /\ pc = "returned"
    /\ Len(new_orders) = 2
    /\ new_orders[1] # new_orders[2]
    /\ \E k \in 1..Len(calls) : calls[k].i = 1
    /\ \E k \in 1..Len(calls) : calls[k].i = 2

\* C9: process_orders never raises to main (pc is never "raised", the
\* position of a pass that an exception left), also when a collaborator
\* raised for a candidate; and when poll_new_orders raises, or GetOrders
\* fails, the pass returns to main with no candidate, no collaborator call
\* and the seen set untouched.
C9_PassReturnsOnSourceFailure ==
    /\ pc # "raised"
    /\ HasOutcome("error") => pc \in {"order", "label", "slip", "print", "mark", "returned"}
    /\ (poll_raised \/ response.kind \in {"EbayConnectionError", "OSError"}) =>
          /\ pc = "returned"
          /\ new_orders = <<>>
          /\ outcomes = <<>>
          /\ calls = <<>>
          /\ seen = seen0

C9_Witness ==
    /\ pc = "returned"
    /\ poll_raised

\* C10 as stated: poll_new_orders never raises to its caller.
C10_PollNeverRaises == ~poll_raised

\* A call on the store that marked the identifier and wrote the state file.
IsSavedMark(k) == ops[k].op = "mark" /\ ops[k].io = "ok"

\* C11: two mark_order_processed calls in a row for one identifier leave the
\* in-memory seen set as the first call left it and, when both wrote the
\* state file, the persisted set as the first call left it.
C11_MarkTwiceAsOnce ==
    \A k \in 2..Len(ops) :
        (/\ ops[k].op = "mark"
         /\ ops[k - 1].op = "mark"
         /\ ops[k].id = ops[k - 1].id)
            => /\ ops[k].seen = ops[k - 1].seen
               /\ (IsSavedMark(k) /\ IsSavedMark(k - 1)) =>
                     ops[k].file = ops[k - 1].file

C11_Witness ==
    \E k \in 2..Len(ops) :
        /\ IsSavedMark(k)
        /\ IsSavedMark(k - 1)
        /\ ops[k].id = ops[k - 1].id
        /\ ops[k].seen = StoreIds

\* The calls since the manager that served call k was constructed.
SinceConstruct(k) ==
    {j \in 1..k : \A c \in (j + 1)..k : ops[c].op # "construct"}

\* C12: when a manager is constructed on the state file of a manager whose
\* mark_order_processed calls all wrote the file, it loads the seen set the
\* first manager held: it does not raise, and every identifier the first
\* manager marked or held is seen by it.
C12_ReloadEqualsMemory ==
    \A k \in 2..Len(ops) :
        (/\ ops[k].op = "construct"
         /\ ops[k - 1].manager = "alive"
         /\ \A j \in SinceConstruct(k - 1) : ops[j].op = "mark" => ops[j].io = "ok")
            => /\ ~ops[k].raised
               /\ ops[k].manager = "alive"
               /\ ops[k].seen = ops[k - 1].seen
               /\ \A j \in SinceConstruct(k - 1) :
                     ops[j].op = "mark" => is_order_seen(ops[j].id, ops[k].seen)

C12_Witness ==
    /\ Len(ops) = 4
    /\ ops[1].op = "construct" /\ ops[1].before = CorruptFile
    /\ IsSavedMark(2) /\ ops[2].id = "A"
    /\ IsSavedMark(3) /\ ops[3].id = "B"
    /\ ops[4].op = "construct" /\ ops[4].seen = {"A", "B"}

\* C13: constructing an OrderManager while the state file does not exist
\* does not raise and gives an empty seen set.
C13_MissingFileGivesEmptySet ==
    \A k \in 1..Len(ops) :
        (ops[k].op = "construct" /\ ops[k].before.kind = "missing")
            => /\ ~ops[k].raised
               /\ ops[k].manager = "alive"
               /\ ops[k].seen = {}

C13_Witness ==
    /\ Len(ops) >= 2
    /\ ops[1].op = "construct"
    /\ ops[1].before = MissingFile
    /\ ops[2].op = "is_seen"
    /\ ~ops[2].answer

\* The contents of the state file that are malformed: not JSON, or JSON that
\* is no object holding a list under seen_order_ids.
Malformed ==
    {"corrupt", "json_list", "json_null", "json_nokey", "json_ids_null"}

\* C14 as stated: constructing an OrderManager on a malformed state file
\* never raises, gives an empty seen set and logs a warning.
C14_MalformedFileGivesEmptySet ==
    \A k \in 1..Len(ops) :
        (ops[k].op = "construct" /\ ops[k].before.kind \in Malformed)
            => /\ ~ops[k].raised
               /\ ops[k].seen = {}
               /\ ops[k].warned

\* The identifiers the state file holds.
FileIds(file) == IF file.kind = "json" THEN file.ids ELSE {}

\* The step is the mark_order_processed call of line 117, and its write of
\* the state file failed.
MarkWriteFailed ==
    /\ pc = "mark"
    /\ stateFile' # JsonFile(seen \cup {OrderIdOf(CurrentOrder)})

\* The step is a buy_shipping_label call.
LabelCalled ==
    /\ Len(calls') = Len(calls) + 1
    /\ calls'[Len(calls')].step = "label"

\* C15: a mark_order_processed call whose write of the state file fails
\* returns normally (the candidate's outcome is "processed" and the loop
\* goes on) with the identifier in the in-memory seen set; no identifier ever
\* leaves the in-memory set; and no buy_shipping_label call is made for an
\* order whose identifier is in memory only, not in the state file.
C15_FailedWriteKeepsIdInMemory ==
    [][/\ MarkWriteFailed =>
             /\ OrderIdOf(CurrentOrder) \in seen'
             /\ outcomes' = Append(outcomes, "processed")
             /\ pc' \in {"order", "returned"}
       /\ \A id \in seen : is_order_seen(id, seen')
       /\ LabelCalled =>
             OrderIdOf(CurrentOrder) \notin (seen \ FileIds(stateFile))]_vars

\* A later pass is offered an order that was marked while the write failed,
\* and gives it no call.
C15_Witness ==
    /\ pc = "returned"
    /\ \E p \in 1..Len(Offered) :
          /\ Offered[p] \in processed
          /\ OrderIdOf(Offered[p]) \in seen \ FileIds(stateFile)
    /\ \E i \in 1..Len(outcomes) :
          /\ outcomes[i] = "skipped-already-seen"
          /\ OrderIdOf(new_orders[i]) \in seen \ FileIds(stateFile)

\* C16: no step of the process takes an identifier out of the in-memory seen
\* set, and the only step that changes the set is the mark_order_processed
\* call of line 117.
C16_SeenSetOnlyGrowsByMark ==
    [][/\ seen \subseteq seen'
       /\ seen' # seen => pc = "mark"]_vars

C16_Witness ==
    /\ pc = "returned"
    /\ seen0 # {}
    /\ seen0 # seen
    /\ HasOutcome("processed")
    /\ HasOutcome("skipped-already-seen")

\* C17: with DRY_RUN set, print_documents returns True whatever the list of
\* documents holds, without a _print_single_pdf call, so without running lp.
C17_DryRunPrintsNothing ==
    DRY_RUN =>
        /\ print_pc # "for"
        /\ attempted = <<>>
        /\ print_pc = "returned" =>
              /\ print_result
              /\ print_documents(DRY_RUN, print_paths,
                                 [i \in 1..Len(print_paths) |->
                                    _print_single_pdf(print_paths[i]).ok])

C17_Witness ==
    /\ DRY_RUN
    /\ print_pc = "returned"
    /\ Len(print_paths) >= 2
    /\ print_paths[1] = "missing"
    /\ print_paths[2] = "lp_nonzero"

\* C18: without DRY_RUN, print_documents calls _print_single_pdf once for
\* every document, in list order, also after a document failed; a missing
\* file fails without running lp, a failing lp command fails; and it returns
\* True if and only if every document printed.
C18_AllAttemptedAndAllMustPrint ==
    (~DRY_RUN /\ print_pc = "returned") =>
        /\ Len(attempted) = Len(print_paths)
        /\ \A i \in 1..Len(attempted) :
              /\ attempted[i].i = i
              /\ attempted[i].ok <=> print_paths[i] = "ok"
              /\ attempted[i].lp <=> print_paths[i] # "missing"
        /\ print_result <=> \A i \in 1..Len(attempted) : attempted[i].ok
        /\ print_result =
              print_documents(DRY_RUN, print_paths,
                              [i \in 1..Len(print_paths) |-> attempted[i].ok])

C18_Witness ==
    /\ ~DRY_RUN
    /\ print_pc = "returned"
    /\ Len(attempted) = 3
    /\ ~attempted[1].ok /\ ~attempted[1].lp
    /\ attempted[2].ok
    /\ ~attempted[3].ok /\ attempted[3].lp
    /\ ~print_result

\* C19: the poll_new_orders call of a pass leaves the seen set and the state
\* file as they were, whatever GetOrders did; and without a trading API it
\* returns an empty list and GetOrders is not called.
C19_PollLeavesStoreAlone ==
    [][pc = "poll" =>
          /\ seen' = seen
          /\ stateFile' = stateFile
          /\ ~trading_api => (response' = NoResponse /\ new_orders' = <<>>)
          /\ response'.kind \in {"EbayConnectionError", "OSError"} =>
                new_orders' = <<>>]_vars

C19_Witness ==
    /\ pc = "order"
    /\ idx = 1
    /\ outcomes = <<>>
    /\ seen # {}
    /\ stateFile = JsonFile(seen)
    /\ Len(new_orders) = 2

\* The orders the GetOrders response of this pass lists under
\* OrderArray.Order (a list, or one order).
Listed ==
    IF response.kind = "response" /\ response.OrderArray.t = "dict"
    THEN LET order == response.OrderArray.Order
         IN  CASE order.t = "list" -> order.v
               [] order.t = "dict" -> <<order.v>>
               [] OTHER -> <<>>
    ELSE <<>>

\* The order needs fulfillment and was not seen when the pass started.
Qualifies(order) ==
    /\ Get(order, "OrderID", "") \notin seen0
    /\ "OrderStatus" \in DOMAIN order
    /\ order["OrderStatus"] = "Completed"
    /\ "ShippedTime" \notin DOMAIN order

\* C20: when GetOrders answers with Ack Success or Warning and
\* poll_new_orders returns, it returns the orders the response lists whose
\* OrderID was not in the seen set, whose OrderStatus is "Completed" and
\* which have no ShippedTime, each once per listing and in the order listed,
\* and no other order; in every other case it returns no order.
C20_PollReturnsUnseenUnshippedCompleted ==
    IF /\ response.kind = "response"
       /\ response.Ack \in {"Success", "Warning"}
       /\ ~poll_raised
    THEN new_orders = SelectSeq(Listed, Qualifies)
    ELSE new_orders = <<>>

C20_Witness ==
    /\ pc = "order"
    /\ Len(Listed) = 2
    /\ Len(new_orders) = 1
    /\ \E p \in 1..2 : Get(Listed[p], "OrderID", "") \in seen0
    /\ \E p \in 1..2 : "ShippedTime" \in DOMAIN Listed[p]

\* C21 as stated: in one pass no two buy_shipping_label calls are made for
\* the same order identifier.
C21_OneLabelCallPerIdPerPass ==
    \A k1, k2 \in 1..Len(calls) :
        (/\ k1 < k2
         /\ calls[k1].step = "label"
         /\ calls[k2].step = "label")
            => PollIdOf(calls[k1].order) # PollIdOf(calls[k2].order)

\* C24: a pass starts only from the head of main's loop, with nothing of an
\* earlier pass still in progress, and the head of the loop is reached again
\* only by the sleep that follows the return of process_orders: passes are
\* counted one by one and never overlap.
C24_PassesNeverOverlap ==
    [][/\ passNo' # passNo =>
             /\ passNo' = passNo + 1
             /\ pc = "main_loop"
             /\ pc' = "poll"
             /\ new_orders = <<>> /\ outcomes = <<>> /\ calls = <<>>
       /\ (pc' = "main_loop" /\ pc # "main_loop") => pc = "returned"
       /\ (pc' = "poll" /\ pc # "poll") => passNo' = passNo + 1]_vars

C24_Witness ==
    /\ passNo = 2
    /\ pc = "label"
    /\ processed # {}
    /\ printFailed # {}

\* A candidate is skipped as seen although its OrderID, the identifier
\* poll_new_orders filters on, is not in the seen set.
SkippedForAnotherId ==
    \E i \in 1..Len(outcomes) :
        /\ outcomes[i] = "skipped-already-seen"
        /\ PollIdOf(new_orders[i]) \notin seen

\* C25 as stated: the identifier process_orders tests and marks for a
\* candidate is the candidate's OrderID, and a candidate is skipped as seen
\* only when its own OrderID is in the seen set.
C25_SkippedOnlyForOwnId ==
    /\ \A i \in 1..Len(new_orders) :
          OrderIdOf(new_orders[i]) = PollIdOf(new_orders[i])
    /\ ~SkippedForAnotherId

\* C26 as stated: after a mark_order_processed call whose write of the state
\* file failed, loading the file gives at least every identifier that
\* loading it gave before the call.
C26_FailedWriteKeepsDurableIds ==
    \A k \in 1..Len(ops) :
        (ops[k].op = "mark" /\ ops[k].io # "ok")
            => /\ ~_load_seen_orders(ops[k].file).raised
               /\ _load_seen_orders(ops[k].before).value
                     \subseteq _load_seen_orders(ops[k].file).value

\* C28: when EBAY_ENVIRONMENT is not "sandbox", every buy_shipping_label call
\* returns no label, no step of a pass reaches the packing slip, the printer
\* or the mark, and the seen set stays as it is.
C28_NoLabelOutsideSandbox ==
    [][EBAY_ENVIRONMENT # "sandbox" =>
          /\ seen' = seen
          /\ stateFile' = stateFile
          /\ pc' \notin {"slip", "print", "mark"}
          /\ Len(calls') = Len(calls) + 1 =>
                /\ calls'[Len(calls')].step = "label"
                /\ ~calls'[Len(calls')].ok
                /\ label_info' = NoneVal
                /\ outcomes' = Append(outcomes, "failed-label")]_vars

C28_Witness ==
    /\ EBAY_ENVIRONMENT # "sandbox"
    /\ trading_api
    /\ passNo = 2
    /\ pc = "returned"
    /\ outcomes = <<"failed-label", "failed-label">>
    /\ new_orders[1] # new_orders[2]

\* C23: the process ends only through a fatal configuration error found at
\* startup, before any component is constructed or any poll is made, or
\* through an operator interrupt; no state file content, collaborator failure
\* or failed pass ends it.
C23_EndsOnlyByConfigOrInterrupt ==
    pc \notin LoopPositions \cup {"start", "construct", "test_printer"} =>
        /\ pc \in {"exit_config", "interrupted"}
        /\ pc = "exit_config" => (manager = "none" /\ passNo = 0)

\* The candidate at position i of this pass got its label and its slip.
LabelAndSlipSucceeded(i) ==
    \E k \in 1..Len(calls) :
        calls[k].i = i /\ calls[k].step = "slip" /\ calls[k].ok

\* C27: when test_printer_connection fails at startup, DRY_RUN is true for
\* the rest of the process: every print_documents call reports success and
\* runs lp for no document, and every order whose label and slip succeed is
\* marked processed although nothing was printed.
C27_FailedPrinterTestMeansDryRun ==
    printer_ok = "failed" =>
        /\ DRY_RUN
        /\ print_pc # "for" /\ attempted = <<>> /\ sent = <<>>
        /\ \A k \in 1..Len(calls) : calls[k].step = "print" => calls[k].ok
        /\ \A i \in 1..Len(outcomes) :
              LabelAndSlipSucceeded(i) =>
                  /\ outcomes[i] = "processed"
                  /\ OrderIdOf(new_orders[i]) \in seen

\* The printer test failed, and in the second pass an order was marked
\* processed after a print_documents call that printed nothing.
C27_Witness ==
    /\ printer_ok = "failed" /\ passNo = 2 /\ pc = "returned"
    /\ outcomes = <<"processed">> /\ LabelAndSlipSucceeded(1)
    /\ \E k \in 1..Len(calls) : calls[k].step = "print" /\ calls[k].ok
    /\ sent = <<>>

\* Two entries of sent are the same document of the same order.
SameDocument(a, b) ==
    /\ sent[a].order = sent[b].order
    /\ sent[a].i = sent[b].i
    /\ sent[a].path = sent[b].path

\* C30, as stated: for any order, each of its two documents is accepted by
\* the printer at most once since the process started, also when one of the
\* two failed to print and the order is retried on a later pass.
C30_EachDocumentSentAtMostOnce ==
    \A a, b \in 1..Len(sent) : a < b => ~SameDocument(a, b)

\* C30, amended: one print_documents call sends each of its documents at
\* most once, and a document of an order is accepted by the printer again
\* only in a later call, after a call for that order that reported failure
\* (the order was not marked and is retried with both documents); after a
\* call that reported success no document of the order is sent again.
C30_ResentOnlyAfterFailedCall ==
    /\ \A a, b \in 1..Len(attempted) : a < b => attempted[a].i < attempted[b].i
    /\ \A a, b \in 1..Len(sent) :
          (a < b /\ SameDocument(a, b)) =>
              /\ ~sent[a].call_ok
              /\ <<sent[a].pass, sent[a].idx>> # <<sent[b].pass, sent[b].idx>>

\* The label of an order was printed in a call whose slip failed, and printed
\* again in the retry of the next pass, which succeeded and marked the order.
C30_Witness ==
    /\ pc = "returned" /\ passNo = 2 /\ outcomes = <<"processed">>
    /\ \E a, b \in 1..Len(sent) :
          /\ a < b /\ SameDocument(a, b) /\ sent[a].i = 1
          /\ ~sent[a].call_ok /\ sent[b].call_ok
          /\ sent[a].pass = 1 /\ sent[b].pass = 2

(***************************************************************************)
(* The loop under the scheduling of the code: a step of the program's own  *)
(* is taken when it can be, and a call to a collaborator returns when the  *)
(* call site bounds it.  The lp command is run by subprocess.run, which    *)
(* blocks until lp exits unless it is given a timeout.                     *)
(***************************************************************************)

\* app/print.py, line 73: subprocess.run(cmd, capture_output=True,
\* text=True, check=True) is given no timeout.
LpHasTimeout == FALSE

HangNext ==
    \/ StartPass
    \/ MainPoll
    \/ NextOrder
    \/ BuyLabel
    \/ GenerateSlip
    \/ MainPrintCall
    \/ PrintOne
    \/ MainPrintReturn
    \/ MarkProcessed
    \/ Sleep

\* PrintOne is the step in which lp exits and _print_single_pdf returns.
HangFairness ==
    /\ WF_vars(StartPass)
    /\ WF_vars(MainPoll)
    /\ WF_vars(NextOrder)
    /\ WF_vars(BuyLabel)
    /\ WF_vars(GenerateSlip)
    /\ WF_vars(MainPrintCall)
    /\ WF_vars(MainPrintReturn)
    /\ WF_vars(MarkProcessed)
    /\ WF_vars(Sleep)
    /\ LpHasTimeout => WF_vars(PrintOne)

HangSpec == Init /\ [][HangNext]_vars /\ HangFairness

\* C22: every pass terminates: each outbound call of a pass is bounded by a
\* timeout, so a call that never returns on its own cannot keep the loop
\* from reaching the end of the pass and the next pass.
C22_EveryPassTerminates == (pc = "poll") ~> (pc = "returned")

(***************************************************************************)
(* The loop for as long as the process runs: passes without a bound (the   *)
(* count of passes stops at MaxPasses), a marketplace that lists OrderA in *)
(* every response, every step taken when it can be and every call          *)
(* returning.                                                              *)
(***************************************************************************)

\* A loop that makes one pass and no more.
LoopStopsAfterOnePass ==
    /\ pc = "main_loop"
    /\ passNo < 1
    /\ pc' = "poll"
    /\ passNo' = passNo + 1
    /\ seen0' = seen
    /\ UNCHANGED <<seen, stateFile, configVars, response, poll_raised,
                   new_orders, idx, label_info, packing_slip_path, pdf_paths,
                   success, outcomes, calls, processed, printFailed,
                   storeVars, printVars, mainVars>>

\* main, lines 63-64: while True, the loop calls process_orders.
LoopPass ==
    /\ pc = "main_loop"
    /\ pc' = "poll"
    /\ passNo' = IF passNo < MaxPasses THEN passNo + 1 ELSE passNo
    /\ seen0' = seen
    /\ UNCHANGED <<seen, stateFile, configVars, response, poll_raised,
                   new_orders, idx, label_info, packing_slip_path, pdf_paths,
                   success, outcomes, calls, processed, printFailed,
                   storeVars, printVars, mainVars>>

\* poll_new_orders, on a response that lists OrderA and nothing else.
LivePoll ==
    /\ Poll
    /\ response'.kind = "response"
    /\ response'.Ack \in {"Success", "Warning"}
    /\ Offered' = <<OrderA>>

LiveInit ==
    /\ stateFile = MissingFile
    /\ seen = {}
    /\ manager = "alive"
    /\ ops = <<>>
    /\ trading_api = TRUE
    /\ EBAY_ENVIRONMENT = "sandbox"
    /\ DRY_RUN \in BOOLEAN
    /\ RunIdle
    /\ PrintIdle
    /\ MainIdle

LiveNext ==
    \/ LoopPass
    \/ LivePoll
    \/ NextOrder
    \/ BuyLabel
    \/ GenerateSlip
    \/ PrintDocuments
    \/ MarkProcessed
    \/ Sleep

LiveFairness ==
    /\ WF_vars(LoopPass)
    /\ WF_vars(LivePoll)
    /\ WF_vars(NextOrder)
    /\ WF_vars(BuyLabel)
    /\ WF_vars(GenerateSlip)
    /\ WF_vars(PrintDocuments)
    /\ WF_vars(MarkProcessed)
    /\ WF_vars(Sleep)

LiveSpec == LiveInit /\ [][LiveNext]_vars /\ LiveFairness

\* A step in which label acquisition, slip rendering or printing fails.
CollaboratorFails ==
    /\ Len(outcomes') = Len(outcomes) + 1
    /\ outcomes'[Len(outcomes')] \in {"failed-label", "failed-slip", "failed-print", "error"}

\* C29: the marketplace lists an eligible order (OrderA) on every pass; if
\* from some pass on label acquisition, slip rendering and printing succeed
\* for it, then, passes being scheduled fairly, the order is eventually
\* marked processed; and once it is marked, it stays marked and no pass
\* makes a collaborator call for it again.
C29_EventuallyMarkedThenLeftAlone ==
    /\ <>[][~CollaboratorFails]_vars => <>(OrderIdOf(OrderA) \in seen)
    /\ [][OrderIdOf(OrderA) \in seen =>
              /\ OrderIdOf(OrderA) \in seen'
              /\ Len(calls') <= Len(calls)
              /\ pc' \notin {"label", "slip", "print", "mark"}]_vars

\* OrderA failed to print in an earlier pass, was listed again, and is now
\* marked; the pass after that found nothing to do.
C29_Witness ==
    /\ OrderA \in printFailed /\ OrderA \in processed
    /\ OrderIdOf(OrderA) \in seen
    /\ pc = "returned" /\ new_orders = <<>> /\ Offered = <<OrderA>>

====
